---- MODULE Spec2Model ----
(***************************************************************************)
(* Worksheet generator pipelines: ged_worksheet_workflow.py (variant 1,   *)
(* five model calls) and ged_worksheet_workflow_2.py (variant 2, four     *)
(* model calls, fault-tolerant review).  One run of main() is a sequence  *)
(* of stage invocations inside a single try/except; generate_plots        *)
(* materialises the generated program in temp_plot_script.py, runs it and *)
(* removes it again.                                                       *)
(*                                                                         *)
(* Text is a sequence of symbols: BT (one backtick), NL (newline), SP     *)
(* (blank), a language tag, an atom (a chunk of text without blanks or    *)
(* backticks that is no JSON document) or Enc(v) (the JSON encoding of    *)
(* the value v).  A Python value is a tagged record.                      *)
(***************************************************************************)
EXTENDS Integers, Sequences, FiniteSets, TLC

\* ------------------------------------------------------------ bounds
\* Longest list (of plot records, of reviewer issues) the inputs contain.
MaxItems == 2

\* ------------------------------------------------------------ values
Runs == {1, 2}
Variants == {1, 2}

None == [t |-> "none"]
Num(n) == [t |-> "num", n |-> n]
Str(s) == [t |-> "str", s |-> s]
List(xs) == [t |-> "list", items |-> xs]
Obj(f) == [t |-> "obj", fields |-> f]

IsDict(v) == v.t = "obj"
IsList(v) == v.t = "list"
IsStr(v) == v.t = "str"

\* Python truth value of a decoded value.
Truthy(v) ==
    CASE v.t = "none" -> FALSE
      [] v.t = "num" -> v.n # 0
      [] v.t = "str" -> v.s # <<>>
      [] v.t = "list" -> v.items # <<>>
      [] v.t = "obj" -> DOMAIN v.fields # {}
      [] OTHER -> TRUE

\* dict.get(key, default)
DictGet(d, key, default) ==
    IF key \in DOMAIN d.fields THEN d.fields[key] ELSE default

\* ------------------------------------------------------------ exceptions
NoExc == [kind |-> "none"]
Exc(kind) == [kind |-> kind]
CalledProcessError(out, err) ==
    [kind |-> "CalledProcessError", stdout |-> out, stderr |-> err]

RequestExceptions == {"Timeout", "ConnectionError", "HTTPError", "RequestsJSONDecodeError"}
\* json.JSONDecodeError and the Unicode errors derive from ValueError;
\* requests' JSONDecodeError derives from RequestException and from
\* json.JSONDecodeError.
JSONDecodeErrors == {"JSONDecodeError", "RequestsJSONDecodeError"}
ValueErrors == {"ValueError", "UnicodeDecodeError", "UnicodeEncodeError"} \cup JSONDecodeErrors

\* ------------------------------------------------------------ text
Ch(c) == [c |-> c]
BT == Ch("BT")
NL == Ch("NL")
SP == Ch("SP")
Atom(name) == Ch(name)
\* json.dumps(v), as one indivisible chunk of text
Enc(v) == [j |-> v]
Fence == <<BT, BT, BT>>
IsWs(c) == c \in {NL, SP}

RECURSIVE lstrip(_)
lstrip(s) == IF s # <<>> /\ IsWs(Head(s)) THEN lstrip(Tail(s)) ELSE s

RECURSIVE rstrip(_)
rstrip(s) ==
    IF s # <<>> /\ IsWs(s[Len(s)]) THEN rstrip(SubSeq(s, 1, Len(s) - 1)) ELSE s

strip(s) == rstrip(lstrip(s))

StartsAt(s, i, p) ==
    /\ i >= 1
    /\ i + Len(p) - 1 <= Len(s)
    /\ SubSeq(s, i, i + Len(p) - 1) = p

startswith(s, p) == StartsAt(s, 1, p)
endswith(s, p) == StartsAt(s, Len(s) - Len(p) + 1, p)

\* The pattern of re.compile: three backticks, the language tag, a newline,
\* a lazy group under re.DOTALL, a newline and three backticks.
FenceOpen(language) == Fence \o <<Ch(language), NL>>
FenceClose == <<NL>> \o Fence

\* pattern.search(text): the leftmost start, and for it the shortest group.
MatchStarts(text, language) ==
    {i \in 1..Len(text) :
        /\ StartsAt(text, i, FenceOpen(language))
        /\ \E k \in (i + Len(FenceOpen(language)))..Len(text) : StartsAt(text, k, FenceClose)}

Min(S) == CHOOSE x \in S : \A y \in S : x <= y

MatchGroup(text, language) ==
    LET i == Min(MatchStarts(text, language))
        from == i + Len(FenceOpen(language))
        k == Min({j \in from..Len(text) : StartsAt(text, j, FenceClose)})
    IN  SubSeq(text, from, k - 1)

_extract_code_untrimmed(text, language) ==
    IF MatchStarts(text, language) # {}
    THEN MatchGroup(text, language)
    ELSE text

\* _extract_code(text, language): the same in both programs.
_extract_code(text, language) ==
    IF MatchStarts(text, language) # {}
    THEN strip(MatchGroup(text, language))
    ELSE IF startswith(strip(text), Fence) /\ endswith(strip(text), Fence)
         THEN strip(SubSeq(strip(text), 4, Len(strip(text)) - 3))
         ELSE text

\* A response wrapped in a tagged fence, as the prompts ask for.
Fenced(language, body) == FenceOpen(language) \o body \o FenceClose

\* ------------------------------------------------------------ results
\* What a Python call yields: a value, or an exception and the place
\* (phase) that raised it.
\* "absorbed" is an exception the call caught and replaced by a value.
Ok(v) == [exc |-> NoExc, phase |-> "", val |-> v, absorbed |-> NoExc]
Raise(e, phase) == [exc |-> e, phase |-> phase, val |-> None, absorbed |-> NoExc]
Absorb(e, phase, v) == [exc |-> NoExc, phase |-> phase, val |-> v, absorbed |-> e]
Raised(o) == o.exc # NoExc

\* The characters of a JSON text: the quote, the backslash, the brackets,
\* the braces, the comma, the colon and a number literal.
QUOTE == Ch("QUOTE")
BSL == Ch("BSL")
LB == Ch("LB")
RB == Ch("RB")
LC == Ch("LC")
RC == Ch("RC")
COMMA == Ch("COMMA")
COLON == Ch("COLON")
NumLit(n) == [n |-> n]

\* json.dumps(v) with the default separators.  Inside a string the newline,
\* the quote and the backslash are escaped; a key is one word.
RECURSIVE Escape(_)
Escape(s) ==
    IF s = <<>> THEN <<>>
    ELSE (CASE Head(s) = NL -> <<BSL, Ch("n")>>
            [] Head(s) = QUOTE -> <<BSL, QUOTE>>
            [] Head(s) = BSL -> <<BSL, BSL>>
            [] OTHER -> <<Head(s)>>) \o Escape(Tail(s))

RECURSIVE json_dumps(_)
RECURSIVE DumpItems(_)
RECURSIVE DumpMembers(_, _)
json_dumps(v) ==
    CASE v.t = "none" -> <<Ch("null")>>
      [] v.t = "num" -> <<NumLit(v.n)>>
      [] v.t = "str" -> <<QUOTE>> \o Escape(v.s) \o <<QUOTE>>
      [] v.t = "list" -> <<LB>> \o DumpItems(v.items) \o <<RB>>
      [] v.t = "obj" -> <<LC>> \o DumpMembers(v.fields, DOMAIN v.fields) \o <<RC>>

DumpItems(xs) ==
    IF xs = <<>> THEN <<>>
    ELSE json_dumps(Head(xs))
            \o (IF Len(xs) > 1 THEN <<COMMA, SP>> \o DumpItems(Tail(xs)) ELSE <<>>)

DumpMembers(f, ks) ==
    IF ks = {} THEN <<>>
    ELSE LET k == CHOOSE x \in ks : TRUE
         IN  <<QUOTE, Ch(k), QUOTE, COLON, SP>> \o json_dumps(f[k])
                \o (IF ks \ {k} # {} THEN <<COMMA, SP>> \o DumpMembers(f, ks \ {k}) ELSE <<>>)

\* The JSON decoder: what was read and the text left over.
NoParse == [ok |-> FALSE, val |-> None, rest |-> <<>>]
Parsed(v, rest) == [ok |-> TRUE, val |-> v, rest |-> rest]

\* The characters of a string up to its closing quote.
RECURSIVE ParseString(_, _)
ParseString(s, acc) ==
    IF s = <<>> THEN NoParse
    ELSE IF Head(s) = QUOTE THEN Parsed(Str(acc), Tail(s))
    ELSE IF Head(s) = BSL
         THEN IF Len(s) < 2 THEN NoParse
              ELSE IF s[2] = Ch("n") THEN ParseString(SubSeq(s, 3, Len(s)), Append(acc, NL))
              ELSE IF s[2] \in {QUOTE, BSL}
                   THEN ParseString(SubSeq(s, 3, Len(s)), Append(acc, s[2]))
                   ELSE NoParse
    ELSE IF Head(s) = NL \/ DOMAIN Head(s) = {"j"} THEN NoParse
    ELSE ParseString(Tail(s), Append(acc, Head(s)))

\* The decoder reads one value and hands what follows it on: each step
\* below takes what the step before it read.
RECURSIVE ParseValue(_)
RECURSIVE ParseElems(_, _)
RECURSIVE ParseMembers(_, _)

\* After a value of a list: a comma and the next value, or the bracket.
ElemSep(u, acc) ==
    IF u = <<>> THEN NoParse
    ELSE IF Head(u) = COMMA THEN ParseElems(Tail(u), acc)
    ELSE IF Head(u) = RB THEN Parsed(List(acc), Tail(u))
    ELSE NoParse

AfterElem(r, acc) ==
    IF ~r.ok THEN NoParse ELSE ElemSep(lstrip(r.rest), Append(acc, r.val))

ParseElems(s, acc) == AfterElem(ParseValue(s), acc)

ListAt(s) ==
    IF s # <<>> /\ Head(s) = RB THEN Parsed(List(<<>>), Tail(s)) ELSE ParseElems(s, <<>>)

\* After a member of an object: a comma and the next member, or the brace.
\* acc is the object read so far; a repeated key keeps its last value.
MemberSep(u, acc) ==
    IF u = <<>> THEN NoParse
    ELSE IF Head(u) = COMMA THEN ParseMembers(Tail(u), acc)
    ELSE IF Head(u) = RC THEN Parsed(Obj(acc), Tail(u))
    ELSE NoParse

AfterMember(k, r, acc) ==
    IF ~r.ok THEN NoParse
    ELSE MemberSep(lstrip(r.rest),
                   [x \in DOMAIN acc \cup {k} |-> IF x = k THEN r.val ELSE acc[x]])

MemberColon(k, c, acc) ==
    IF c = <<>> \/ Head(c) # COLON THEN NoParse
    ELSE AfterMember(k, ParseValue(Tail(c)), acc)

AfterKey(key, acc) ==
    IF ~key.ok \/ Len(key.val.s) # 1 THEN NoParse
    ELSE MemberColon(key.val.s[1].c, lstrip(key.rest), acc)

MemberKey(q, acc) ==
    IF q = <<>> \/ Head(q) # QUOTE THEN NoParse
    ELSE AfterKey(ParseString(Tail(q), <<>>), acc)

ParseMembers(s, acc) == MemberKey(lstrip(s), acc)

ObjectAt(s) ==
    IF s # <<>> /\ Head(s) = RC THEN Parsed(Obj(<<>>), Tail(s)) ELSE ParseMembers(s, <<>>)

ValueAt(s) ==
    IF s = <<>> THEN NoParse
    ELSE CASE DOMAIN Head(s) = {"j"} -> Parsed(Head(s).j, Tail(s))
           [] DOMAIN Head(s) = {"n"} -> Parsed(Num(Head(s).n), Tail(s))
           [] Head(s) = Ch("null") -> Parsed(None, Tail(s))
           [] Head(s) = QUOTE -> ParseString(Tail(s), <<>>)
           [] Head(s) = LB -> ListAt(lstrip(Tail(s)))
           [] Head(s) = LC -> ObjectAt(lstrip(Tail(s)))
           [] OTHER -> NoParse

ParseValue(text) == ValueAt(lstrip(text))

\* The value read must be the whole text but for whitespace.
Loaded(r) ==
    IF r.ok /\ lstrip(r.rest) = <<>>
    THEN Ok(r.val)
    ELSE Raise(Exc("JSONDecodeError"), "json")

\* json.loads(text): one JSON document, whitespace allowed around it;
\* anything else raises JSONDecodeError.  Enc(v) reads as v.
json_loads(text) == Loaded(ParseValue(text))

\* The first of the two decodes that succeeds, else the decode error.
first_decoded(block, whole) ==
    IF ~Raised(block) THEN block
    ELSE IF ~Raised(whole) THEN whole
    ELSE Raise(Exc("JSONDecodeError"), "extract")

_extract_json_default_tag(content) ==
    IF ~IsStr(content)
    THEN Raise(Exc("TypeError"), "extract")
    ELSE first_decoded(json_loads(_extract_code(content.s, "python")), json_loads(content.s))

\* _extract_json(text): the extracted block first, the whole text second.
\* A content that is no string makes pattern.search raise TypeError.
_extract_json(content) ==
    IF ~IsStr(content)
    THEN Raise(Exc("TypeError"), "extract")
    ELSE first_decoded(json_loads(_extract_code(content.s, "json")), json_loads(content.s))

\* _extract_code on a response content
extract_code_of(content, language) ==
    IF ~IsStr(content)
    THEN Raise(Exc("TypeError"), "extract")
    ELSE Ok(Str(_extract_code(content.s, language)))

load_api_key_none_only(env) ==
    IF env = None THEN Raise(Exc("ValueError"), "config") ELSE Ok(env)

\* load_api_key(): os.getenv, then "if not api_key".
load_api_key(env) ==
    IF ~Truthy(env) THEN Raise(Exc("ValueError"), "config") ELSE Ok(env)

\* call_openrouter(): what the network does decides the outcome.  The
\* except clause prints and re-raises; a body without choices raises
\* KeyError past it.
call_openrouter(net) ==
    CASE net.net = "Timeout" -> Raise(Exc("Timeout"), "gateway")
      [] net.net = "ConnectionError" -> Raise(Exc("ConnectionError"), "gateway")
      [] net.net = "HTTPError" -> Raise(Exc("HTTPError"), "gateway")
      [] net.net = "BodyNotJSON" -> Raise(Exc("RequestsJSONDecodeError"), "gateway")
      [] net.net = "NoChoices" -> Raise(Exc("KeyError"), "gateway")
      [] OTHER -> Ok(net.content)

\* A stage's outcome together with whether it issued its gateway call.
Out(called, o) == [called |-> called, res |-> o]

\* ------------------------------------------------------------ stages
\* key in value, as Python's "in" decides it
Contains(v, key) ==
    CASE IsDict(v) -> Ok(key \in DOMAIN v.fields)
      [] IsList(v) -> Ok(\E i \in DOMAIN v.items : v.items[i] = Str(<<Atom(key)>>))
      [] IsStr(v) -> Ok(\E i \in DOMAIN v.s : v.s[i] = Atom(key))
      [] OTHER -> Raise(Exc("TypeError"), "validate")

\* The "Basic validation" of the first program's syllabus stage.
validate_syllabus(syllabus_json) ==
    LET has == Contains(syllabus_json, "sub_topics")
    IN  IF Raised(has) THEN has
        ELSE IF ~has.val THEN Raise(Exc("ValueError"), "validate")
        ELSE IF ~IsDict(syllabus_json)
             THEN Raise(Exc("TypeError"), "validate")
             ELSE IF ~IsList(syllabus_json.fields["sub_topics"])
                  THEN Raise(Exc("ValueError"), "validate")
                  ELSE Ok(syllabus_json)

\* get_and_generate_syllabus(): input(), the call, _extract_json and, in
\* the first program only, the validation.
get_and_generate_syllabus(v, topics_list, net) ==
    IF ~Truthy(topics_list)
    THEN Out(FALSE, Raise(Exc("ValueError"), "input"))
    ELSE LET response == call_openrouter(net)
             syllabus_json == _extract_json(response.val)
         IN  IF Raised(response) THEN Out(TRUE, response)
             ELSE IF Raised(syllabus_json) THEN Out(TRUE, syllabus_json)
             ELSE IF v = 1 THEN Out(TRUE, validate_syllabus(syllabus_json.val))
             ELSE Out(TRUE, syllabus_json)

\* generate_plots(), first part: the call and _extract_code(.., 'python').
plots_request(net) ==
    LET response == call_openrouter(net)
    IN  IF Raised(response) THEN Out(TRUE, response)
        ELSE Out(TRUE, extract_code_of(response.val, "python"))

\* A lone surrogate cannot be encoded: f.write raises UnicodeEncodeError.
HasSurrogate(text) == \E i \in DOMAIN text : text[i] = Atom("SURROGATE")

\* with open(TEMP_PLOT_SCRIPT, 'w') as f: f.write(python_code).  The result
\* is the file after the statement and the exception it raised, if any.
\* os is what the file system does to open().
write_script(python_code, os, before) ==
    IF os = "PermissionError"
    THEN [file |-> before, exc |-> Exc("PermissionError"), created |-> FALSE]
    ELSE IF HasSurrogate(python_code.s)
         THEN [file |-> Str(<<>>), exc |-> Exc("UnicodeEncodeError"), created |-> TRUE]
         ELSE [file |-> python_code, exc |-> NoExc, created |-> TRUE]

\* The body of generate_plots' try statement: subprocess.run(..., text=True,
\* check=True, encoding='utf-8'), json.loads(result.stdout) and the except
\* clauses.  "decodes" counts the json.loads of stdout.
Bytes == [t |-> "bytes"]

on_stdout_json_error_absorbing(v) ==
    Absorb(Exc("JSONDecodeError"), "stdout_json", Obj([plots |-> List(<<>>)]))

\* except json.JSONDecodeError: the first program re-raises, the second
\* returns {"plots": []}.
on_stdout_json_error(v) ==
    IF v = 1
    THEN Raise(Exc("JSONDecodeError"), "stdout_json")
    ELSE Absorb(Exc("JSONDecodeError"), "stdout_json", Obj([plots |-> List(<<>>)]))

run_script(v, child) ==
    IF ~child.spawned
    THEN [res |-> Raise(Exc("FileNotFoundError"), "spawn"), decodes |-> 0]
    ELSE IF child.stdout = Bytes \/ child.stderr = Bytes
    THEN [res |-> Raise(Exc("UnicodeDecodeError"), "stdout_utf8"), decodes |-> 0]
    ELSE IF child.rc # 0
    THEN [res |-> Raise(CalledProcessError(child.stdout, child.stderr), "exit"), decodes |-> 0]
    ELSE IF Raised(json_loads(child.stdout.s))
    THEN [res |-> on_stdout_json_error(v), decodes |-> 1]
    ELSE [res |-> json_loads(child.stdout.s), decodes |-> 1]

\* The finally clause: os.path.exists, os.remove.
Absent == [t |-> "absent"]
remove_script(file) == Absent

\* generate_worksheet_part1() of the first program: json.dumps of the
\* syllabus cannot fail, then the call and _extract_code(.., 'latex').
generate_worksheet_part1(net) ==
    LET response == call_openrouter(net)
    IN  IF Raised(response) THEN Out(TRUE, response)
        ELSE Out(TRUE, extract_code_of(response.val, "latex"))

\* generate_worksheet_part2() of the first program: json.dumps(plots_json)
\* accepts every decoded value.
generate_worksheet_part2(net) ==
    LET response == call_openrouter(net)
    IN  IF Raised(response) THEN Out(TRUE, response)
        ELSE Out(TRUE, extract_code_of(response.val, "latex"))

\* for x in value: the elements, or TypeError.  A string yields its
\* characters and a dict its keys, both as strings.
Iterate(v) ==
    CASE IsList(v) -> Ok(v.items)
      [] IsStr(v) -> Ok([i \in DOMAIN v.s |-> Str(<<v.s[i]>>)])
      [] IsDict(v) -> Ok([i \in 1..Cardinality(DOMAIN v.fields) |-> Str(<<Atom("key")>>)])
      [] OTHER -> Raise(Exc("TypeError"), "prompt_plots")

\* plot['path'] in the FINAL INSTRUCTIONS of the second program's template.
\* plot is the loop variable: it is bound only if the loop body ran.
plot_path(bound, plot) ==
    IF ~bound THEN Raise(Exc("UnboundLocalError"), "prompt_plots")
    ELSE IF IsDict(plot)
         THEN IF "path" \in DOMAIN plot.fields
              THEN Ok(plot.fields["path"])
              ELSE Raise(Exc("KeyError"), "prompt_plots")
         ELSE Raise(Exc("TypeError"), "prompt_plots")

\* The prompt of generate_full_worksheet: plot_list, the loop over it, then
\* the template with syllabus_json.get(..) and plot['path'].
full_worksheet_prompt(syllabus_json, plots_json) ==
    LET plot_list == IF IsDict(plots_json) THEN DictGet(plots_json, "plots", List(<<>>))
                     ELSE IF IsList(plots_json) THEN plots_json
                     ELSE List(<<>>)
        plots == IF Truthy(plot_list) THEN Iterate(plot_list) ELSE Ok(<<>>)
    IN  IF Raised(plots) THEN plots
        ELSE IF ~IsDict(syllabus_json) THEN Raise(Exc("AttributeError"), "prompt_syllabus")
        ELSE plot_path(plots.val # <<>>,
                       IF plots.val # <<>> THEN plots.val[Len(plots.val)] ELSE None)

\* generate_full_worksheet() of the second program.
generate_full_worksheet(syllabus_json, plots_json, net) ==
    LET prompt == full_worksheet_prompt(syllabus_json, plots_json)
        response == call_openrouter(net)
    IN  IF Raised(prompt) THEN Out(FALSE, prompt)
        ELSE IF Raised(response) THEN Out(TRUE, response)
        ELSE Out(TRUE, extract_code_of(response.val, "latex"))

\* The prompt of review_worksheet (both programs):
\* [p.get('description', '') for p in plots_json.get('plots', [])]
RECURSIVE all_have_get(_)
all_have_get(ps) == ps = <<>> \/ (IsDict(Head(ps)) /\ all_have_get(Tail(ps)))

review_prompt(plots_json) ==
    IF ~IsDict(plots_json) THEN Raise(Exc("AttributeError"), "prompt_plots")
    ELSE LET ps == Iterate(DictGet(plots_json, "plots", List(<<>>)))
         IN  IF Raised(ps) THEN ps
             ELSE IF ~all_have_get(ps.val) THEN Raise(Exc("AttributeError"), "prompt_plots")
             ELSE Ok(None)

\* issues[0]
first_of(v) ==
    CASE IsList(v) -> IF v.items # <<>> THEN Ok(v.items[1]) ELSE Raise(Exc("IndexError"), "body")
      [] IsStr(v) -> IF v.s # <<>> THEN Ok(Str(<<v.s[1]>>)) ELSE Raise(Exc("IndexError"), "body")
      [] IsDict(v) -> Raise(Exc("KeyError"), "body")
      [] OTHER -> Raise(Exc("TypeError"), "body")

\* issues = review_json.get('issues_found', []); if issues and issues[0]: ..
report_issues(review_json) ==
    IF ~IsDict(review_json) THEN Raise(Exc("AttributeError"), "body")
    ELSE LET issues == DictGet(review_json, "issues_found", List(<<>>))
         IN  IF Truthy(issues) /\ Raised(first_of(issues)) THEN first_of(issues)
             ELSE Ok(None)

\* review_worksheet() of the first program, after the prompt: nothing is
\* caught, and review_json['revised_latex'] is returned whatever it is.
review_body_1(net) ==
    LET response == call_openrouter(net)
        review_json == _extract_json(response.val)
    IN  IF Raised(response) THEN response
        ELSE IF Raised(review_json) THEN review_json
        ELSE IF Raised(report_issues(review_json.val)) THEN report_issues(review_json.val)
        ELSE IF "revised_latex" \notin DOMAIN review_json.val.fields
             THEN Raise(Exc("KeyError"), "validate")
             ELSE Ok(review_json.val.fields["revised_latex"])

\* The try block of the second program's review_worksheet.
review_try_2(net) ==
    LET response == call_openrouter(net)
        review_json == _extract_json(response.val)
    IN  IF Raised(response) THEN response
        ELSE IF Raised(review_json) THEN review_json
        ELSE IF Raised(report_issues(review_json.val)) THEN report_issues(review_json.val)
        ELSE IF ~Truthy(DictGet(review_json.val, "revised_latex", None))
             THEN Raise(Exc("KeyError"), "validate")
             ELSE Ok(DictGet(review_json.val, "revised_latex", None))

\* except (json.JSONDecodeError, KeyError, AttributeError): the kinds the
\* second program's review stage catches.
ReviewCaught == JSONDecodeErrors \cup {"KeyError", "AttributeError"}

review_body_2(full_latex, net) ==
    LET o == review_try_2(net)
    IN  IF Raised(o) /\ o.exc.kind \in ReviewCaught
        THEN Absorb(o.exc, o.phase, full_latex)
        ELSE o

\* review_worksheet(): the prompt is built before the try statement.
review_worksheet(v, full_latex, plots_json, net) ==
    IF Raised(review_prompt(plots_json))
    THEN Out(FALSE, review_prompt(plots_json))
    ELSE Out(TRUE, IF v = 1 THEN review_body_1(net) ELSE review_body_2(full_latex, net))

\* with open(output_filename, 'w', encoding='utf-8') as f: f.write(final_latex)
\* open() creates or truncates the file before write() looks at its argument.
write_final(final_latex, os, before) ==
    IF os = "PermissionError"
    THEN [file |-> before, exc |-> Exc("PermissionError")]
    ELSE IF ~IsStr(final_latex)
         THEN [file |-> Str(<<>>), exc |-> Exc("TypeError")]
         ELSE IF HasSurrogate(final_latex.s)
              THEN [file |-> Str(<<>>), exc |-> Exc("UnicodeEncodeError")]
              ELSE [file |-> final_latex, exc |-> NoExc]

\* main()'s except clauses: which banner the exception gets.  Both end the
\* run with "Workflow aborted."
main_except(kind) ==
    IF kind \in ValueErrors \cup RequestExceptions \cup {"FileNotFoundError", "CalledProcessError"}
    THEN "critical"
    ELSE "unexpected"

\* ------------------------------------------------------------ inputs
\* What the environment can hand to a run: the network's answers, the
\* generated program's behaviour, the file system's refusals.
SeqsUpTo(S, n) == UNION {[1..k -> S] : k \in 0..n}

NetFailures == {"Timeout", "ConnectionError", "HTTPError", "BodyNotJSON", "NoChoices"}
Net(texts) ==
    {[net |-> "ok", content |-> Str(t)] : t \in texts}
        \cup {[net |-> "ok", content |-> None]}
        \cup {[net |-> k, content |-> None] : k \in NetFailures}

JsonTexts(V) ==
    {<<Enc(v)>> : v \in V}
        \cup {Fenced("json", <<Enc(v)>>) : v \in V}
        \cup {Fence \o <<NL, Enc(v), NL>> \o Fence : v \in V}
        \cup {<<Atom("Sorry")>>, <<>>, Fenced("json", <<Atom("oops")>>)}

CodeTexts(language, atoms) ==
    {Fenced(language, <<Atom(a)>>) : a \in atoms}
        \cup {<<Atom(a)>> : a \in atoms}
        \cup {<<>>}

SyllabusVals ==
    {Obj([sub_topics |-> List(<<>>), chapter_name |-> Str(<<Atom("Life")>>)]),
     Obj([sub_topics |-> Num(5)]),
     Obj([chapter_name |-> Str(<<Atom("Life")>>)]),
     List(<<>>),
     Num(5)}

GoodPlot == Obj([path |-> Str(<<Atom("p.png")>>), description |-> Str(<<Atom("d")>>)])
PlotItems == {GoodPlot, Obj([description |-> Str(<<Atom("d")>>)]), Str(<<Atom("x")>>)}
PlotLists == SeqsUpTo(PlotItems, MaxItems)
EmptyPlots == Obj([plots |-> List(<<>>)])
PlotsVals ==
    {Obj([plots |-> List(l)]) : l \in PlotLists}
        \cup {List(l) : l \in PlotLists}
        \cup {Obj([plots |-> Num(5)]), Obj([items |-> List(<<>>)]), Num(5)}

\* What the generated program does once started.
Stderrs == {Str(<<>>), Str(<<Atom("Traceback")>>)}
ChildOutcomes ==
    {[spawned |-> TRUE, rc |-> 0, stdout |-> Str(<<Enc(v), NL>>), stderr |-> Str(<<>>)] : v \in PlotsVals}
        \cup {[spawned |-> TRUE, rc |-> 0, stdout |-> out, stderr |-> err] :
                    out \in {Str(<<>>), Str(<<Atom("Saved"), NL, Enc(EmptyPlots), NL>>), Bytes},
                    err \in Stderrs}
        \cup {[spawned |-> TRUE, rc |-> 1, stdout |-> out, stderr |-> err] :
                    out \in {Str(<<>>), Str(<<Enc(EmptyPlots), NL>>), Bytes},
                    err \in Stderrs}

IssueLists == SeqsUpTo({Str(<<Atom("fix")>>), Str(<<>>)}, MaxItems)
IssuesVals ==
    {List(l) : l \in IssueLists}
        \cup {Num(5), Num(0), Str(<<Atom("none")>>), Obj([a |-> Num(1)])}
RevisedVals ==
    {Str(<<Atom("REVISED")>>), Str(<<>>), Str(<<Atom("SURROGATE")>>), Num(5), None}
ReviewVals ==
    {Obj([issues_found |-> i, revised_latex |-> x]) : i \in IssuesVals, x \in RevisedVals}
        \cup {Obj([issues_found |-> i]) : i \in IssuesVals}
        \cup {Obj([revised_latex |-> x]) : x \in RevisedVals}
        \cup {List(<<Num(1)>>), Num(5), Str(<<Atom("fine")>>)}

EnvKeys == {None, Str(<<>>), Str(<<Atom("sk-key")>>)}
Topics == {Str(<<>>), Str(<<Atom("DNA")>>)}
FileSystem == {"ok", "PermissionError"}

\* ------------------------------------------------------------ state
VARIABLES
    variant,    \* which program each run executes
    environ,    \* OPENROUTER_API_KEY as os.getenv returns it
    stdin,      \* what the user types at the topics prompt
    pc,         \* where each run's main() stands
    mainv,      \* main()'s local variables, None until assigned
    gp,         \* generate_plots' frame and its child process
    rv,         \* review_worksheet's frame
    calls,      \* the stages that issued a gateway call, in order
    invoked,    \* the steps of main() that were started, in order
    failures,   \* the exceptions raised in stages, in order
    report,     \* what the run printed at its end
    scratch,    \* temp_plot_script.py in the working directory
    finalFile,  \* final_worksheet.tex in the working directory
    probe,      \* the argument of a helper function applied on its own
    answer      \* what the helper returned for it

vars == <<variant, environ, stdin, pc, mainv, gp, rv, calls, invoked, failures,
          report, scratch, finalFile, probe, answer>>

OldFinal == Str(<<Atom("OLD")>>)

mainv0 ==
    [api_key |-> None, topics_list |-> None, syllabus_json |-> None,
     plots_json |-> None, latex_part1 |-> None, full_latex_draft |-> None,
     final_latex |-> None]
gp0 ==
    [status |-> "idle", python_code |-> None, created |-> FALSE, child |-> "none",
     spawns |-> 0, program |-> None, result |-> None, decodes |-> 0, pending |-> None]
rv0 == [net |-> "none", extracted |-> "none", review_json |-> None]
report0 == [status |-> "none", banner |-> "", error |-> NoExc, degraded |-> FALSE]
NoProbe == [kind |-> "none"]
NoAnswer == [op |-> "none"]

\* One run at the start of main(); the other run of the working directory
\* has not been started.
Init ==
    /\ variant \in [Runs -> Variants]
    /\ variant[2] = 1
    /\ environ \in [Runs -> EnvKeys]
    /\ environ[2] = None
    /\ stdin \in [Runs -> Topics]
    /\ stdin[2] = Str(<<>>)
    /\ pc = [r \in Runs |-> "load_api_key"]
    /\ mainv = [r \in Runs |-> mainv0]
    /\ gp = [r \in Runs |-> gp0]
    /\ rv = [r \in Runs |-> rv0]
    /\ calls = [r \in Runs |-> <<>>]
    /\ invoked = [r \in Runs |-> <<>>]
    /\ failures = [r \in Runs |-> <<>>]
    /\ report = [r \in Runs |-> report0]
    /\ scratch = Absent
    /\ finalFile \in {Absent, OldFinal}
    /\ probe = NoProbe
    /\ answer = NoAnswer

\* ------------------------------------------------------------ main()
\* The statement after a stage's call in main().
next_stage(v, stage) ==
    CASE stage = "load_api_key" -> "get_and_generate_syllabus"
      [] stage = "get_and_generate_syllabus" -> "generate_plots"
      [] stage = "generate_plots" -> IF v = 1 THEN "generate_worksheet_part1" ELSE "generate_full_worksheet"
      [] stage = "generate_worksheet_part1" -> "generate_worksheet_part2"
      [] stage = "generate_worksheet_part2" -> "review_worksheet"
      [] stage = "generate_full_worksheet" -> "review_worksheet"
      [] stage = "review_worksheet" -> "write_final"
      [] OTHER -> "done"

after_raise_resumes(v, stage) == next_stage(v, stage)

after_raise_retries(v, stage) == stage

\* Where an exception raised in main()'s try block leaves the run: in the
\* except clause, after which main() returns.
after_raise(v, stage) == "aborted"

Failure(stage, o, absorbed) ==
    [stage |-> stage, phase |-> o.phase,
     kind |-> IF absorbed THEN o.absorbed.kind ELSE o.exc.kind, absorbed |-> absorbed]

\* The exception e of stage reaches main()'s except clause.
Except(r, stage, e) ==
    /\ pc' = [pc EXCEPT ![r] = after_raise(variant[r], stage)]
    /\ report' = [report EXCEPT ![r] =
            [@ EXCEPT !.status = "aborted", !.banner = main_except(e.kind), !.error = e]]

Assign_rebinding_all(old, new) ==
    [k \in DOMAIN old |-> IF k \in DOMAIN new THEN new[k] ELSE None]

\* The assignment of main()'s locals named in new.
Assign(old, new) == [k \in DOMAIN old |-> IF k \in DOMAIN new THEN new[k] ELSE old[k]]

\* A stage function returned or raised: o is its result, field the local
\* variable main() assigns it to.
Resolve(r, stage, o, field) ==
    /\ invoked' = [invoked EXCEPT ![r] = Append(@, stage)]
    /\ calls' = [calls EXCEPT ![r] = IF o.called THEN Append(@, stage) ELSE @]
    /\ IF Raised(o.res)
       THEN /\ Except(r, stage, o.res.exc)
            /\ failures' = [failures EXCEPT ![r] = Append(@, Failure(stage, o.res, FALSE))]
            /\ mainv' = mainv
       ELSE /\ pc' = [pc EXCEPT ![r] = next_stage(variant[r], stage)]
            /\ report' = [report EXCEPT ![r].degraded =
                    @ \/ (stage = "review_worksheet" /\ o.res.absorbed # NoExc)]
            /\ failures' = [failures EXCEPT ![r] =
                    IF o.res.absorbed # NoExc THEN Append(@, Failure(stage, o.res, TRUE)) ELSE @]
            /\ mainv' = [mainv EXCEPT ![r] =
                    Assign(@, IF stage = "get_and_generate_syllabus" /\ variant[r] = 1
                              THEN [topics_list |-> stdin[r], syllabus_json |-> o.res.val]
                              ELSE [x \in {field} |-> o.res.val])]

LoadApiKey(r) ==
    /\ pc[r] = "load_api_key"
    /\ Resolve(r, "load_api_key", Out(FALSE, load_api_key(environ[r])), "api_key")
    /\ UNCHANGED <<probe, answer, variant, environ, stdin, gp, rv, scratch, finalFile>>

Syllabus(r) ==
    /\ pc[r] = "get_and_generate_syllabus"
    /\ \E net \in Net(JsonTexts(SyllabusVals)) :
            LET o == get_and_generate_syllabus(variant[r], stdin[r], net)
            IN  /\ Resolve(r, "get_and_generate_syllabus", o, "syllabus_json")
    /\ UNCHANGED <<probe, answer, variant, environ, stdin, gp, rv, scratch, finalFile>>

\* ------------------------------------------------------------ generate_plots
PlotsRequest(r) ==
    /\ pc[r] = "generate_plots"
    /\ \E net \in Net(CodeTexts("python", {"PROGRAM", "SURROGATE"})) :
            LET o == plots_request(net)
            IN  /\ invoked' = [invoked EXCEPT ![r] = Append(@, "generate_plots")]
                /\ calls' = [calls EXCEPT ![r] = Append(@, "generate_plots")]
                /\ IF Raised(o.res)
                   THEN /\ Except(r, "generate_plots", o.res.exc)
                        /\ failures' = [failures EXCEPT ![r] =
                                Append(@, Failure("generate_plots", o.res, FALSE))]
                        /\ gp' = [gp EXCEPT ![r].status = "raised"]
                   ELSE /\ pc' = [pc EXCEPT ![r] = "plots_write"]
                        /\ gp' = [gp EXCEPT ![r].status = "active", ![r].python_code = o.res.val]
                        /\ UNCHANGED <<report, failures>>
    /\ UNCHANGED <<probe, answer, variant, environ, stdin, mainv, rv, scratch, finalFile>>

\* The with statement that writes the program; it stands before the try.
PlotsWrite(r) ==
    /\ pc[r] = "plots_write"
    /\ \E os \in FileSystem :
            LET w == write_script(gp[r].python_code, os, scratch)
            IN  /\ scratch' = w.file
                /\ IF w.exc # NoExc
                   THEN /\ Except(r, "generate_plots", w.exc)
                        /\ failures' = [failures EXCEPT ![r] =
                                Append(@, Failure("generate_plots", Raise(w.exc, "write_scratch"), FALSE))]
                        /\ gp' = [gp EXCEPT ![r].status = "raised", ![r].created = w.created]
                   ELSE /\ pc' = [pc EXCEPT ![r] = "plots_spawn"]
                        /\ gp' = [gp EXCEPT ![r].created = w.created]
                        /\ UNCHANGED <<report, failures>>
    /\ UNCHANGED <<probe, answer, variant, environ, stdin, mainv, rv, calls, invoked, finalFile>>

\* subprocess.run starts the child, which reads the script; no timeout is
\* passed, so a child that never exits is waited for without end.
PlotsSpawn(r) ==
    /\ pc[r] = "plots_spawn"
    /\ \E started \in BOOLEAN, hangs \in BOOLEAN :
            /\ started \/ ~hangs
            /\ pc' = [pc EXCEPT ![r] = IF started THEN "plots_wait" ELSE "plots_finally"]
            /\ gp' = [gp EXCEPT
                    ![r].child = IF ~started THEN "none" ELSE IF hangs THEN "hung" ELSE "running",
                    ![r].spawns = IF started THEN @ + 1 ELSE @,
                    ![r].program = IF started THEN scratch ELSE @,
                    ![r].pending = IF started THEN @
                                   ELSE run_script(variant[r], [spawned |-> FALSE]).res]
            /\ failures' = [failures EXCEPT ![r] =
                    IF started THEN @
                    ELSE Append(@, Failure("generate_plots",
                                           run_script(variant[r], [spawned |-> FALSE]).res, FALSE))]
    /\ UNCHANGED <<probe, answer, variant, environ, stdin, mainv, rv, calls, invoked, report, scratch, finalFile>>

\* The child exits; subprocess.run returns or raises, and the except
\* clauses of the try statement run.
PlotsWait(r) ==
    /\ pc[r] = "plots_wait"
    /\ gp[r].child = "running"
    /\ \E child \in ChildOutcomes :
            LET o == run_script(variant[r], child)
            IN  /\ gp' = [gp EXCEPT ![r].child = "exited", ![r].result = child,
                                     ![r].decodes = @ + o.decodes, ![r].pending = o.res]
                /\ failures' = [failures EXCEPT ![r] =
                        IF Raised(o.res) THEN Append(@, Failure("generate_plots", o.res, FALSE))
                        ELSE IF o.res.absorbed # NoExc
                             THEN Append(@, Failure("generate_plots", o.res, TRUE))
                             ELSE @]
    /\ pc' = [pc EXCEPT ![r] = "plots_finally"]
    /\ UNCHANGED <<probe, answer, variant, environ, stdin, mainv, rv, calls, invoked, report, scratch, finalFile>>

\* The finally clause, then the return or the pending exception.
PlotsFinally(r) ==
    /\ pc[r] = "plots_finally"
    /\ scratch' = IF scratch # Absent THEN remove_script(scratch) ELSE scratch
    /\ IF Raised(gp[r].pending)
       THEN /\ Except(r, "generate_plots", gp[r].pending.exc)
            /\ gp' = [gp EXCEPT ![r].status = "raised"]
            /\ mainv' = mainv
       ELSE /\ pc' = [pc EXCEPT ![r] = next_stage(variant[r], "generate_plots")]
            /\ gp' = [gp EXCEPT ![r].status = "returned"]
            /\ mainv' = [mainv EXCEPT ![r] = Assign(@, [plots_json |-> gp[r].pending.val])]
            /\ report' = report
    /\ UNCHANGED <<probe, answer, variant, environ, stdin, rv, calls, invoked, failures, finalFile>>

\* ------------------------------------------------------------ later stages
LatexTexts == CodeTexts("latex", {"DRAFT"})

Part1(r) ==
    /\ pc[r] = "generate_worksheet_part1"
    /\ \E net \in Net(LatexTexts) :
            Resolve(r, "generate_worksheet_part1", generate_worksheet_part1(net), "latex_part1")
    /\ UNCHANGED <<probe, answer, variant, environ, stdin, gp, rv, scratch, finalFile>>

Part2(r) ==
    /\ pc[r] = "generate_worksheet_part2"
    /\ \E net \in Net(LatexTexts) :
            Resolve(r, "generate_worksheet_part2", generate_worksheet_part2(net), "full_latex_draft")
    /\ UNCHANGED <<probe, answer, variant, environ, stdin, gp, rv, scratch, finalFile>>

Draft(r) ==
    /\ pc[r] = "generate_full_worksheet"
    /\ \E net \in Net(LatexTexts) :
            Resolve(r, "generate_full_worksheet",
                    generate_full_worksheet(mainv[r].syllabus_json, mainv[r].plots_json, net),
                    "full_latex_draft")
    /\ UNCHANGED <<probe, answer, variant, environ, stdin, gp, rv, scratch, finalFile>>

\* What review_worksheet saw of the reviewer's answer.
review_frame(net) ==
    LET response == call_openrouter(net)
        review_json == _extract_json(response.val)
    IN  IF Raised(response)
        THEN [net |-> net.net, extracted |-> "none", review_json |-> None]
        ELSE IF Raised(review_json)
             THEN [net |-> net.net, review_json |-> None,
                   extracted |-> IF review_json.exc.kind = "JSONDecodeError"
                                 THEN "failed" ELSE "no_text"]
             ELSE [net |-> net.net, extracted |-> "ok", review_json |-> review_json.val]

Review(r) ==
    /\ pc[r] = "review_worksheet"
    /\ \E net \in Net(JsonTexts(ReviewVals)) :
            LET o == review_worksheet(variant[r], mainv[r].full_latex_draft,
                                      mainv[r].plots_json, net)
            IN  /\ Resolve(r, "review_worksheet", o, "final_latex")
                /\ rv' = [rv EXCEPT ![r] = IF o.called THEN review_frame(net) ELSE @]
    /\ UNCHANGED <<probe, answer, variant, environ, stdin, gp, scratch, finalFile>>

\* The with statement that writes final_worksheet.tex, and the closing prints.
WriteFinal(r) ==
    /\ pc[r] = "write_final"
    /\ \E os \in FileSystem :
            LET w == write_final(mainv[r].final_latex, os, finalFile)
            IN  /\ finalFile' = w.file
                /\ invoked' = [invoked EXCEPT ![r] = Append(@, "write_final")]
                /\ IF w.exc # NoExc
                   THEN /\ Except(r, "write_final", w.exc)
                        /\ failures' = [failures EXCEPT ![r] =
                                Append(@, Failure("write_final", Raise(w.exc, "write_final"), FALSE))]
                   ELSE /\ pc' = [pc EXCEPT ![r] = "done"]
                        /\ report' = [report EXCEPT ![r].status = "complete"]
                        /\ failures' = failures
    /\ UNCHANGED <<probe, answer, variant, environ, stdin, mainv, gp, rv, calls, scratch>>

\* ------------------------------------------------------------ specification
Step(r) ==
    \/ LoadApiKey(r)
    \/ Syllabus(r)
    \/ PlotsRequest(r)
    \/ PlotsWrite(r)
    \/ PlotsSpawn(r)
    \/ PlotsWait(r)
    \/ PlotsFinally(r)
    \/ Part1(r)
    \/ Part2(r)
    \/ Draft(r)
    \/ Review(r)
    \/ WriteFinal(r)

\* One pipeline run in the working directory.
Next == Step(1)

Spec == Init /\ [][Next]_vars

\* ------------------------------------------------------------ helpers on their own
\* The most pieces a text handed to _extract_code is put together from.
MaxPieces == 4

\* The language tags the programs pass to _extract_code.
Languages == {"json", "python"}

\* What a response is put together from: a fence, the opening line of a
\* json block, a lone backtick, a newline, a blank, the word json, other text.
Pieces == {Fence, FenceOpen("json"), <<BT>>, <<NL>>, <<SP>>, <<Ch("json")>>, <<Atom("x")>>}

RECURSIVE Flatten(_)
Flatten(ps) == IF ps = <<>> THEN <<>> ELSE Head(ps) \o Flatten(Tail(ps))

Texts == {Flatten(ps) : ps \in SeqsUpTo(Pieces, MaxPieces)}

pipeline == <<variant, environ, stdin, pc, mainv, gp, rv, calls, invoked, failures,
              report, scratch, finalFile>>

\* No run of main() has been started.
NotStarted ==
    /\ variant = [r \in Runs |-> 1]
    /\ environ = [r \in Runs |-> None]
    /\ stdin = [r \in Runs |-> Str(<<>>)]
    /\ pc = [r \in Runs |-> "load_api_key"]
    /\ mainv = [r \in Runs |-> mainv0]
    /\ gp = [r \in Runs |-> gp0]
    /\ rv = [r \in Runs |-> rv0]
    /\ calls = [r \in Runs |-> <<>>]
    /\ invoked = [r \in Runs |-> <<>>]
    /\ failures = [r \in Runs |-> <<>>]
    /\ report = [r \in Runs |-> report0]
    /\ scratch = Absent
    /\ finalFile = Absent

\* The values a response encodes: strings with the characters the
\* extraction looks for, numbers, null, lists and objects of them.
StringTexts ==
    {<<>>, <<Atom("x")>>, <<SP>>, <<NL>>, <<QUOTE>>, <<BSL, Ch("n")>>, Fence,
     Fenced("json", <<NumLit(5)>>)}
Scalars == {None, Num(0), Num(5)} \cup {Str(s) : s \in StringTexts}
Lists == {List(l) : l \in SeqsUpTo(Scalars, MaxItems)}
Objects ==
    Scalars \cup Lists \cup {Obj(<<>>)}
        \cup {Obj([a |-> v]) : v \in Scalars \cup Lists}
        \cup {Obj([a |-> v, plots |-> w]) :
                    v \in {Num(5), Str(Fenced("json", <<NumLit(5)>>))}, w \in Lists}

\* The ways a response carries the encoding e of a value other than bare
\* or in a json block: in an untagged block, in a block tagged python,
\* between lines of prose, cut short, after a json block that is no JSON.
Forms == {"generic", "python", "prose", "cut", "second"}
Carried(form, e) ==
    CASE form = "generic" -> Fence \o <<NL>> \o e \o <<NL>> \o Fence
      [] form = "python" -> Fenced("python", e)
      [] form = "prose" -> <<Atom("Here"), NL>> \o Fenced("json", e) \o <<NL, Atom("Bye")>>
      [] form = "cut" -> SubSeq(e, 1, Len(e) - 1)
      [] form = "second" -> Fenced("json", <<Atom("oops")>>) \o <<NL>> \o e

InitExtract ==
    /\ NotStarted
    /\ probe \in {[kind |-> "text", text |-> x] : x \in Texts}
                \cup {[kind |-> "obj", obj |-> o] : o \in Objects}
                \cup {[kind |-> "net", net |-> n] : n \in Net(LatexTexts)}
    /\ answer = NoAnswer

\* _extract_code(text, language) on the text as it is.
ExtractCode ==
    /\ probe.kind = "text"
    /\ answer = NoAnswer
    /\ \E language \in Languages :
            answer' = [op |-> "_extract_code", language |-> language,
                       res |-> _extract_code(probe.text, language)]
    /\ UNCHANGED <<probe, pipeline>>

\* _extract_code on the text wrapped in a block tagged with the language.
ExtractFenced ==
    /\ probe.kind = "text"
    /\ answer = NoAnswer
    /\ \E language \in Languages :
            answer' = [op |-> "fenced", language |-> language,
                       res |-> _extract_code(Fenced(language, probe.text), language)]
    /\ UNCHANGED <<probe, pipeline>>

\* _extract_json(text) on the encoding of the value in a json block.
ExtractJsonFenced ==
    /\ probe.kind = "obj"
    /\ answer = NoAnswer
    /\ LET text == Fenced("json", json_dumps(probe.obj))
       IN  answer' = [op |-> "json_fenced", text |-> text, res |-> _extract_json(Str(text))]
    /\ UNCHANGED <<probe, pipeline>>

\* _extract_json(text) on the bare encoding of the value.
ExtractJsonBare ==
    /\ probe.kind = "obj"
    /\ answer = NoAnswer
    /\ LET text == json_dumps(probe.obj)
       IN  answer' = [op |-> "json_bare", text |-> text, res |-> _extract_json(Str(text))]
    /\ UNCHANGED <<probe, pipeline>>

\* _extract_json(text) on the encoding carried another way.
ExtractJsonCarried ==
    /\ probe.kind = "obj"
    /\ answer = NoAnswer
    /\ \E form \in Forms :
            LET text == Carried(form, json_dumps(probe.obj))
            IN  answer' = [op |-> "json_carried", form |-> form, text |-> text,
                           res |-> _extract_json(Str(text))]
    /\ UNCHANGED <<probe, pipeline>>

\* call_openrouter(api_key, model, prompt) against what the network does.
CallOpenRouter ==
    /\ probe.kind = "net"
    /\ answer = NoAnswer
    /\ answer' = [op |-> "call_openrouter", res |-> call_openrouter(probe.net)]
    /\ UNCHANGED <<probe, pipeline>>

NextExtract ==
    \/ CallOpenRouter
    \/ ExtractCode
    \/ ExtractFenced
    \/ ExtractJsonFenced
    \/ ExtractJsonBare
    \/ ExtractJsonCarried

SpecExtract == InitExtract /\ [][NextExtract]_vars

\* ------------------------------------------------------------ two runs
\* Two runs of main() in one working directory, both about to call
\* generate_plots, followed until generate_plots has returned or raised:
\* the operating system interleaves their steps in any order.
StoredSyllabus == Obj([sub_topics |-> List(<<>>), chapter_name |-> Str(<<Atom("Life")>>)])

InitTwoRuns ==
    /\ variant \in [Runs -> Variants]
    /\ environ = [r \in Runs |-> Str(<<Atom("sk-key")>>)]
    /\ stdin = [r \in Runs |-> Str(<<Atom("DNA")>>)]
    /\ pc = [r \in Runs |-> "generate_plots"]
    /\ mainv = [r \in Runs |->
            Assign(mainv0, [api_key |-> environ[r], syllabus_json |-> StoredSyllabus,
                            topics_list |-> IF variant[r] = 1 THEN stdin[r] ELSE None])]
    /\ gp = [r \in Runs |-> gp0]
    /\ rv = [r \in Runs |-> rv0]
    /\ calls = [r \in Runs |-> <<"get_and_generate_syllabus">>]
    /\ invoked = [r \in Runs |-> <<"load_api_key", "get_and_generate_syllabus">>]
    /\ failures = [r \in Runs |-> <<>>]
    /\ report = [r \in Runs |-> report0]
    /\ scratch = Absent
    /\ finalFile = Absent
    /\ probe = NoProbe
    /\ answer = NoAnswer

NextTwoRuns ==
    \E r \in Runs :
        \/ PlotsRequest(r)
        \/ PlotsWrite(r)
        \/ PlotsSpawn(r)
        \/ PlotsWait(r)
        \/ PlotsFinally(r)

SpecTwoRuns == InitTwoRuns /\ [][NextTwoRuns]_vars

\* ------------------------------------------------------------ claims
Ended(r) == pc[r] \in {"done", "aborted"}
Untouched(file) == file \in {Absent, OldFinal}
FailuresOf(r) == {failures[r][i] : i \in DOMAIN failures[r]}

\* C1: once generate_plots has returned or raised after creating the
\* scratch file, temp_plot_script.py no longer exists.
C1_ScratchFileRemoved ==
    \A r \in Runs :
        (gp[r].status \in {"returned", "raised"} /\ gp[r].created) => scratch = Absent

\* The review stage did not fail the run and handed the draft on, marked
\* as degraded; a finished run wrote exactly the draft.
DegradedToDraft(r) ==
    /\ \A f \in FailuresOf(r) : f.stage = "review_worksheet" => f.absorbed
    /\ pc[r] # "review_worksheet"
    /\ mainv[r].final_latex = mainv[r].full_latex_draft
    /\ report[r].degraded
    /\ report[r].status = "complete" => finalFile = mainv[r].full_latex_draft

ReviewExtractionFailed(r) == rv[r].extracted = "failed"
ReviewValidationFailed(r) ==
    /\ rv[r].extracted = "ok"
    /\ IsDict(rv[r].review_json)
    /\ ~Truthy(DictGet(rv[r].review_json, "revised_latex", None))

\* C2: in the second program, a review whose response cannot be decoded,
\* or decodes to an object without a non-empty revised_latex, makes the run
\* finish with the draft as its output, degraded and not failed.
C2_ReviewFailureDegrades ==
    \A r \in Runs :
        (variant[r] = 2 /\ (ReviewExtractionFailed(r) \/ ReviewValidationFailed(r)))
            => DegradedToDraft(r)

\* C3: in the second program, a review whose gateway call times out or
\* fails in transport makes the run finish with the draft, degraded.
C3_ReviewTimeoutDegrades ==
    \A r \in Runs :
        (variant[r] = 2 /\ rv[r].net \in {"Timeout", "ConnectionError"})
            => DegradedToDraft(r)

\* A failure that was not absorbed ends the run: it is the last thing that
\* happened in a stage, no step of main() was started after the one that
\* raised, and the run is in main()'s except clause or on its way there
\* through generate_plots' finally clause.
DrivesToFailed(r, i) ==
    LET f == failures[r][i]
    IN  /\ i = Len(failures[r])
        /\ pc[r] \in {"aborted", "plots_finally"}
        /\ pc[r] = "plots_finally" => f.stage = "generate_plots"
        /\ invoked[r][Len(invoked[r])] = f.stage

C5_FailedIsAbsorbing ==
    [][\A r \in Runs :
            report[r].status = "aborted" =>
                /\ calls'[r] = calls[r]
                /\ invoked'[r] = invoked[r]
                /\ gp'[r].spawns = gp[r].spawns
                /\ finalFile' = finalFile
                /\ report'[r] = report[r]]_vars

C5_Witness ==
    \E r \in Runs :
        /\ report[r].status = "aborted"
        /\ pc[r] = "aborted"
        /\ Len(calls[r]) >= 2
        /\ invoked[r][Len(invoked[r])] # "review_worksheet"

\* C6: a run that reports the abort has left final_worksheet.tex as it
\* was, and a run that reports completion has written its whole final text.
C6_NoHalfWrittenFinal ==
    \A r \in Runs :
        /\ report[r].status = "aborted" => Untouched(finalFile)
        /\ report[r].status = "complete" => finalFile = mainv[r].final_latex

\* C7: with the credential absent or empty, or an empty topic input, the
\* run makes no gateway call, starts no program, creates no scratch file,
\* writes no final document, and can only end aborted.
C7_ConfigurationErrorsFatal ==
    \A r \in Runs :
        (~Truthy(environ[r]) \/ ~Truthy(stdin[r])) =>
            /\ calls[r] = <<>>
            /\ gp[r].spawns = 0
            /\ ~gp[r].created
            /\ \A i \in DOMAIN invoked[r] :
                    invoked[r][i] \in {"load_api_key", "get_and_generate_syllabus"}
            /\ pc[r] \in {"load_api_key", "get_and_generate_syllabus", "aborted"}
            /\ pc[r] = "aborted" => report[r].status = "aborted"

C7_Witness ==
    \E r \in Runs :
        /\ environ[r] = Str(<<>>)
        /\ pc[r] = "aborted"
        /\ report[r].status = "aborted"

\* C8: when the generated program exits non-zero, generate_plots raises an
\* execution error carrying the program's stdout and stderr, never decodes
\* stdout, removes the scratch file, and the run ends aborted.
C8_NonZeroExitIsExecutionError ==
    \A r \in Runs :
        (gp[r].child = "exited" /\ gp[r].result.rc # 0) =>
            /\ gp[r].pending.exc = CalledProcessError(gp[r].result.stdout, gp[r].result.stderr)
            /\ gp[r].decodes = 0
            /\ gp[r].status # "returned"
            /\ gp[r].status = "raised" =>
                    (scratch = Absent /\ report[r].status = "aborted")

\* The program exited 0 and printed an object whose plots collection is
\* present and empty.
PrintedEmptyPlots(r) ==
    /\ gp[r].child = "exited"
    /\ gp[r].result.rc = 0
    /\ gp[r].result.stdout # Bytes
    /\ gp[r].result.stderr # Bytes
    /\ json_loads(gp[r].result.stdout.s) = Ok(EmptyPlots)

\* C9: then generate_plots returns that object, and no later stage fails
\* on what it builds from the plots.
C9_EmptyPlotsProceeds ==
    \A r \in Runs :
        PrintedEmptyPlots(r) =>
            /\ gp[r].pending = Ok(EmptyPlots)
            /\ \A f \in FailuresOf(r) : f.phase # "prompt_plots"

\* C10: whatever generate_plots returns to main() is an object with the
\* plots field.
C10_PlotsShapeValidated ==
    \A r \in Runs :
        gp[r].status = "returned" =>
            (IsDict(mainv[r].plots_json) /\ "plots" \in DOMAIN mainv[r].plots_json.fields)

HasFence(x) == \E i \in 1..Len(x) : StartsAt(x, i, Fence)

JsonOps == {"json_fenced", "json_bare", "json_carried"}

\* C12: _extract_json gives back the value whose encoding it is handed,
\* in a json block or bare, and raises a decode error exactly when neither
\* the extracted block nor the whole text decodes.
C12_ExtractJsonRoundTrip ==
    /\ answer.op \in {"json_fenced", "json_bare"} => answer.res = Ok(probe.obj)
    /\ answer.op \in JsonOps =>
        /\ Raised(answer.res) <=>
                /\ Raised(json_loads(_extract_code(answer.text, "json")))
                /\ Raised(json_loads(answer.text))
        /\ Raised(answer.res) => answer.res.exc = Exc("JSONDecodeError")

C12_Witness ==
    /\ answer.op = "json_fenced"
    /\ probe.obj = Obj([a |-> Str(Fenced("json", <<NumLit(5)>>)),
                        plots |-> List(<<Str(<<QUOTE>>), None>>)])
    /\ answer.res = Ok(probe.obj)

\* The whole trimmed text stands between generic fence markers.
Wrapped(text) == startswith(strip(text), Fence) /\ endswith(strip(text), Fence)

\* C17: _extract_code returns the trimmed interior of the first block
\* tagged with the language if there is one, else the trimmed text without
\* its fence markers if it is wrapped in them, else the trimmed text.
C17_FallThroughTrimmed ==
    answer.op = "_extract_code" =>
        answer.res =
            IF MatchStarts(probe.text, answer.language) # {}
            THEN strip(MatchGroup(probe.text, answer.language))
            ELSE IF Wrapped(probe.text)
                 THEN strip(SubSeq(strip(probe.text), 4, Len(strip(probe.text)) - 3))
                 ELSE strip(probe.text)

\* The stage whose result main() stores in the local k.
WriterOf(v, k) ==
    CASE k = "api_key" -> "load_api_key"
      [] k \in {"topics_list", "syllabus_json"} -> "get_and_generate_syllabus"
      [] k = "plots_json" -> "generate_plots"
      [] k = "latex_part1" -> "generate_worksheet_part1"
      [] k = "full_latex_draft" ->
            IF v = 1 THEN "generate_worksheet_part2" ELSE "generate_full_worksheet"
      [] k = "final_latex" -> "review_worksheet"

\* The stage that writes k has been called and is not still running.
StageOver(r, k) ==
    /\ \E i \in DOMAIN invoked[r] : invoked[r][i] = WriterOf(variant[r], k)
    /\ ~(k = "plots_json" /\ gp[r].status = "active")

\* C13: once the stage that writes an artifact is over, no later step of
\* the run changes what main() holds under that name.
C13_ArtifactsKept ==
    [][\A r \in Runs : \A k \in DOMAIN mainv0 :
            StageOver(r, k) => mainv'[r][k] = mainv[r][k]]_vars

C13_Witness ==
    \E r \in Runs :
        /\ variant[r] = 1
        /\ pc[r] = "done"
        /\ \A k \in DOMAIN mainv0 : mainv[r][k] # None

\* The three failure conditions of the gateway call.
TransportFailure(n) == n.net \in {"Timeout", "ConnectionError"}
StatusNot2xx(n) == n.net = "HTTPError"
PayloadMissingOrEmpty(n) == n.net = "NoChoices" \/ (n.net = "ok" /\ ~Truthy(n.content))

\* C14: under each of the three conditions call_openrouter raises, with a
\* kind of error of the condition's own, and returns nothing to the stage.
C14_GatewayFailuresReported ==
    answer.op = "call_openrouter" =>
        /\ TransportFailure(probe.net) =>
                (Raised(answer.res) /\ answer.res.exc.kind \in {"Timeout", "ConnectionError"})
        /\ StatusNot2xx(probe.net) =>
                (Raised(answer.res) /\ answer.res.exc.kind = "HTTPError")
        /\ PayloadMissingOrEmpty(probe.net) =>
                (Raised(answer.res)
                    /\ answer.res.exc.kind \notin {"Timeout", "ConnectionError", "HTTPError"})

\* C15: a run that has not ended can take a step: neither the gateway
\* call nor the wait for the generated program holds it for ever, and a
\* program that never exits is cut off and the run ends aborted.
C15_RunNeverBlocksForEver ==
    \A r \in Runs :
        /\ Ended(r) \/ ENABLED Step(r)
        /\ gp[r].child = "hung" => ENABLED PlotsWait(r)

\* C16: from the write of its program to the removal of the file, the
\* scratch file holds what this invocation of generate_plots wrote, and the
\* program the invocation starts is the one it extracted.
C16_ScratchOwnedByOneRun ==
    \A r \in Runs :
        /\ pc[r] \in {"plots_spawn", "plots_wait", "plots_finally"} =>
                scratch = gp[r].python_code
        /\ gp[r].spawns > 0 => gp[r].program = gp[r].python_code

\* The steps of main() in the order it takes them, and those of them that
\* call the gateway.
StageOrder(v) ==
    IF v = 1
    THEN <<"load_api_key", "get_and_generate_syllabus", "generate_plots",
           "generate_worksheet_part1", "generate_worksheet_part2", "review_worksheet",
           "write_final">>
    ELSE <<"load_api_key", "get_and_generate_syllabus", "generate_plots",
           "generate_full_worksheet", "review_worksheet", "write_final">>
GatewayStages(v) ==
    {StageOrder(v)[i] : i \in DOMAIN StageOrder(v)} \ {"load_api_key", "write_final"}
IndexIn(seq, x) == CHOOSE i \in DOMAIN seq : seq[i] = x

\* C18: the steps of main() that were started are the first ones of its
\* fixed order, each started once and only after every earlier one
\* returned; each stage issued at most one gateway call, in that order, so
\* at most five (first program) or four (second); and the generated
\* program was started at most once.
C18_NoRetryStrictSequence ==
    \A r \in Runs :
        LET order == StageOrder(variant[r])
        IN  /\ Len(invoked[r]) <= Len(order)
            /\ invoked[r] = SubSeq(order, 1, Len(invoked[r]))
            /\ \A i \in DOMAIN failures[r] :
                    ~failures[r][i].absorbed =>
                        failures[r][i].stage = invoked[r][Len(invoked[r])]
            /\ \A i \in DOMAIN calls[r] : calls[r][i] \in GatewayStages(variant[r])
            /\ \A i, j \in DOMAIN calls[r] :
                    i < j => IndexIn(order, calls[r][i]) < IndexIn(order, calls[r][j])
            /\ Len(calls[r]) <= IF variant[r] = 1 THEN 5 ELSE 4
            /\ gp[r].spawns <= 1

C18_Witness ==
    \E r \in Runs :
        /\ variant[r] = 1
        /\ pc[r] = "done"
        /\ Len(calls[r]) = 5
        /\ gp[r].spawns = 1

\* The second program's review stage was entered with a draft; the
\* reviewer's answer, if the call was reached, was a text.
ReviewEntered(r) ==
    /\ variant[r] = 2
    /\ mainv[r].full_latex_draft # None
    /\ \E i \in DOMAIN invoked[r] : invoked[r][i] = "review_worksheet"
    /\ rv[r].net \in {"none", "ok"}
    /\ rv[r].extracted # "no_text"

\* C19: then review_worksheet returned the reviewer's revised text or the
\* draft, and raised nothing to main().
C19_ReviewNeverRaisesOnShape ==
    \A r \in Runs :
        ReviewEntered(r) =>
            /\ \A f \in FailuresOf(r) : f.stage = "review_worksheet" => f.absorbed
            /\ \/ mainv[r].final_latex = mainv[r].full_latex_draft
               \/ /\ rv[r].extracted = "ok"
                  /\ IsDict(rv[r].review_json)
                  /\ mainv[r].final_latex = DictGet(rv[r].review_json, "revised_latex", None)

====
